---- MODULE Spec2Model ----
(***************************************************************************)
(* SketchSpace server (src/index.js): the board store handlers             *)
(* (PUT /board/save/:roomId, POST /board/invite, DELETE /board/delete,     *)
(* GET /board/:roomId) over the `boards` collection, and the socket.io     *)
(* relay (join-room, drawing-update, mouse-move, disconnect).              *)
(*                                                                         *)
(* Every handler performs exactly one storage or adapter call, so each     *)
(* handler is one action; concurrent requests interleave as sequences of   *)
(* these actions.  A storage call is one single-document write of the      *)
(* store (updateOne / deleteOne on the first document matching the filter).*)
(* JSON payloads that the server only moves (elements, pointer) are opaque *)
(* tokens.                                                                 *)
(***************************************************************************)
EXTENDS Integers, Sequences, FiniteSets, TLC

(***************************************************************************)
(* Bounds of the model                                                     *)
(***************************************************************************)
MaxEvents == 2       \* socket events relayed by the server
MaxJoins == 2        \* join-room events of one connection that JoinSpec records

(***************************************************************************)
(* Input domains                                                           *)
(***************************************************************************)
Undefined == "undefined"     \* a field missing from a JS object
Null      == "null"          \* BSON null / findOne miss

RoomIds  == {"r1", "r2"}
Identity == {"a@x.com", "b@x.com"}
Names    == {"Untitled", "Sketch"}
Elements == {"[]", "[shape1]"}
Dates    == {"t1"}           \* readings of new Date()
Drawings == {"[shape1]"}     \* elements carried by a drawing-update
Pointers == {"p1"}           \* pointer positions of a mouse-move
Conn     == {"A", "B", "C"}  \* socket ids
Tracked  == {"r1"}           \* roomIds whose history HistorySpec records
Invitees == {"c@x.com"}      \* an identity that only ever is invited
Requests == {"s1", "s2"}     \* save requests handled at the same time

VARIABLES
    boardCollection,   \* sequence of board documents, in natural order
    last,              \* the request handled last and the result sent back
    process,           \* the Node process: "running" or "exited"
    upserting,         \* per save request in flight: <<>>, or the <<request>>
                       \* whose upsert matched no document and has yet to
                       \* insert one
    lastSave,          \* history: per roomId, <<name, elements>> of the save
                       \* applied last to the current record, <<>> if none
    invited,           \* history: per roomId, the <<invitee, matchedCount>>
                       \* of the invites handled since the last delete
    owners,            \* history: per roomId, every owner its records had
    savers,            \* history: per roomId, the userEmail of every save
                       \* applied to the current record
    joins,             \* history: per connection, the join-room events
                       \* handled: <<roomId, events relayed before it>>
    status,            \* per connection: "new", "open" or "closed"
    rooms,             \* per connection: the rooms the socket has joined
    outbox,            \* per connection: packets written to it, not yet
                       \* flushed to the client
    received,          \* per connection: packets the client has received
    relayed            \* history: the events handled, in order, each with
                       \* its sender, its payload and the other sockets in its room

storeVars == <<boardCollection, last, lastSave, process, upserting>>
histVars  == <<invited, owners, savers, joins>>
relayVars == <<status, rooms, outbox, received, relayed>>

(***************************************************************************)
(* The document store                                                      *)
(***************************************************************************)
\* BSON serialisation of a JS value: undefined is written as null.
bson(v) == IF v = Undefined THEN Null ELSE v

\* Indexes of the documents matching the filter { roomId: id }.
Matches(coll, id) == {i \in 1..Len(coll) : coll[i].roomId = bson(id)}

\* The first matching document in natural order, 0 if there is none.
firstMatch(coll, id) ==
    IF Matches(coll, id) = {} THEN 0
    ELSE CHOOSE i \in Matches(coll, id) : \A j \in Matches(coll, id) : i <= j

\* boardCollection.findOne({ roomId: id }): <<doc>>, or <<>> for null.
findOne(coll, id) ==
    IF firstMatch(coll, id) = 0 THEN <<>> ELSE <<coll[firstMatch(coll, id)]>>

\* Mutant: $push in place of $addToSet.
addToSet_push(arr, v) == Append(arr, v)

\* $addToSet on an array field.
addToSet(arr, v) ==
    IF \E i \in 1..Len(arr) : arr[i] = v THEN arr ELSE Append(arr, v)

\* Mutant: owner written by $set, on every save.
updateDoc_setOwner(doc, name, elements, userEmail, date, inserted) ==
    [doc EXCEPT !.name = bson(name), !.elements = bson(elements),
                !.lastModified = date, !.owner = bson(userEmail),
                !.collaborators = IF inserted THEN <<>> ELSE @]

\* Mutant: collaborators written by $set, on every save.
updateDoc_resetCollaborators(doc, name, elements, userEmail, date, inserted) ==
    [doc EXCEPT !.name = bson(name), !.elements = bson(elements),
                !.lastModified = date, !.collaborators = <<>>,
                !.owner = IF inserted THEN bson(userEmail) ELSE @]

\* Mutant: elements written by $setOnInsert, on the first save only.
updateDoc_keepElements(doc, name, elements, userEmail, date, inserted) ==
    IF inserted
    THEN [doc EXCEPT !.name = bson(name), !.elements = bson(elements),
                     !.lastModified = date, !.owner = bson(userEmail),
                     !.collaborators = <<>>]
    ELSE [doc EXCEPT !.name = bson(name), !.lastModified = date]

\* The update document of the save handler applied to doc; inserted tells
\* whether doc is the document the upsert has just created from the filter.
updateDoc(doc, name, elements, userEmail, date, inserted) ==
    LET set == [doc EXCEPT !.name = bson(name),
                           !.elements = bson(elements),
                           !.lastModified = date]
    IN  IF inserted
        THEN [set EXCEPT !.owner = bson(userEmail), !.collaborators = <<>>]
        ELSE set

\* The document an upsert starts from: the equality fields of the filter.
newDoc(id) ==
    [roomId |-> id, name |-> Null, elements |-> Null,
     lastModified |-> Null, owner |-> Null, collaborators |-> <<>>]

\* Mutant: replaceOne, a matched document is replaced whole.
upsertOne_replace(coll, id, name, elements, userEmail, date) ==
    LET i == firstMatch(coll, id)
        doc == updateDoc(newDoc(id), name, elements, userEmail, date, TRUE)
    IN  IF i = 0 THEN Append(coll, doc) ELSE [coll EXCEPT ![i] = doc]

\* boardCollection.updateOne(filter, updateDoc, { upsert: true })
upsertOne(coll, id, name, elements, userEmail, date) ==
    LET i == firstMatch(coll, id)
    IN  IF i = 0
        THEN Append(coll, updateDoc(newDoc(id), name, elements,
                                    userEmail, date, TRUE))
        ELSE [coll EXCEPT ![i] = updateDoc(@, name, elements,
                                           userEmail, date, FALSE)]

\* Mutant: $set of collaborators to the invitee alone.
inviteOne_set(coll, roomId, inviteeEmail) ==
    LET i == firstMatch(coll, roomId)
    IN  IF i = 0 THEN coll
        ELSE [coll EXCEPT ![i].collaborators = <<bson(inviteeEmail)>>]

\* boardCollection.updateOne({ roomId }, { $addToSet: { collaborators } })
inviteOne(coll, roomId, inviteeEmail) ==
    LET i == firstMatch(coll, roomId)
    IN  IF i = 0 THEN coll
        ELSE [coll EXCEPT ![i].collaborators = addToSet(@, bson(inviteeEmail))]

\* Mutant: deleteMany({}) once the filter matches.
deleteOne_many(coll, id) == IF firstMatch(coll, id) = 0 THEN coll ELSE <<>>

\* boardCollection.deleteOne({ roomId: id })
deleteOne(coll, id) ==
    LET i == firstMatch(coll, id)
    IN  IF i = 0 THEN coll
        ELSE SubSeq(coll, 1, i - 1) \o SubSeq(coll, i + 1, Len(coll))

\* Mutant: the query without its collaborators clause.
find_ownerOnly(coll, email) ==
    SelectSeq(coll, LAMBDA doc : doc.owner = email)

\* boardCollection.find({ $or: [{ owner: email },
\*                              { collaborators: { $in: [email] } }] })
find(coll, email) ==
    SelectSeq(coll, LAMBDA doc :
        \/ doc.owner = email
        \/ \E k \in 1..Len(doc.collaborators) : doc.collaborators[k] = email)

\* .project({ elements: 0 }): the document without its elements field.
project(doc) == [f \in DOMAIN doc \ {"elements"} |-> doc[f]]

(***************************************************************************)
(* HTTP handlers                                                           *)
(***************************************************************************)
\* PUT /board/save/:roomId with body { name, elements, userEmail }
Save(id, name, elements, userEmail, date) ==
    LET i == firstMatch(boardCollection, id)
        after == upsertOne(boardCollection, id, name, elements,
                           userEmail, date)
    IN  /\ boardCollection' = after
        /\ last' = [op |-> "save", roomId |-> id,
                    matchedCount |-> IF i = 0 THEN 0 ELSE 1,
                    modifiedCount |->
                        IF i # 0 /\ after # boardCollection THEN 1 ELSE 0,
                    upsertedCount |-> IF i = 0 THEN 1 ELSE 0,
                    deletedCount |-> 0, body |-> <<>>, status |-> "200"]
        /\ lastSave' = [lastSave EXCEPT ![id] = <<name, elements>>]
        /\ UNCHANGED <<process, upserting, relayVars>>

\* POST /board/invite with body { roomId, inviteeEmail }
Invite(roomId, inviteeEmail) ==
    LET i == firstMatch(boardCollection, roomId)
        after == inviteOne(boardCollection, roomId, inviteeEmail)
    IN  /\ boardCollection' = after
        /\ last' = [op |-> "invite", roomId |-> roomId,
                    matchedCount |-> IF i = 0 THEN 0 ELSE 1,
                    modifiedCount |->
                        IF after # boardCollection THEN 1 ELSE 0,
                    upsertedCount |-> 0, deletedCount |-> 0, body |-> <<>>,
                    status |-> "200"]
        /\ UNCHANGED <<lastSave, process, upserting, relayVars>>

\* Mutant: the delete also takes every socket out of the board's room.
Delete_closeRoom(id) ==
    LET i == firstMatch(boardCollection, id)
    IN  /\ boardCollection' = deleteOne(boardCollection, id)
        /\ last' = [op |-> "delete", roomId |-> id,
                    matchedCount |-> 0, modifiedCount |-> 0,
                    upsertedCount |-> 0,
                    deletedCount |-> IF i = 0 THEN 0 ELSE 1, body |-> <<>>,
                    status |-> "200"]
        /\ lastSave' = [lastSave EXCEPT ![id] = <<>>]
        /\ rooms' = [c \in Conn |-> rooms[c] \ {id}]
        /\ UNCHANGED <<process, upserting, status, outbox, received, relayed>>

\* DELETE /board/delete/:roomId
Delete(id) ==
    LET i == firstMatch(boardCollection, id)
    IN  /\ boardCollection' = deleteOne(boardCollection, id)
        /\ last' = [op |-> "delete", roomId |-> id,
                    matchedCount |-> 0, modifiedCount |-> 0,
                    upsertedCount |-> 0,
                    deletedCount |-> IF i = 0 THEN 0 ELSE 1, body |-> <<>>,
                    status |-> "200"]
        /\ lastSave' = [lastSave EXCEPT ![id] = <<>>]
        /\ UNCHANGED <<process, upserting, relayVars>>

\* GET /allBoards/:email
AllBoards(email) ==
    LET result == find(boardCollection, email)
    IN  /\ last' = [op |-> "list", roomId |-> Null,
                    matchedCount |-> 0, modifiedCount |-> 0,
                    upsertedCount |-> 0, deletedCount |-> 0,
                    body |-> [k \in 1..Len(result) |-> project(result[k])],
                    status |-> "200", email |-> email]
        /\ UNCHANGED <<boardCollection, lastSave, process, upserting,
                       histVars, relayVars>>

\* GET /board/:roomId
GetBoard(id) ==
    /\ last' = [op |-> "get", roomId |-> id,
                matchedCount |-> 0, modifiedCount |-> 0,
                upsertedCount |-> 0, deletedCount |-> 0,
                body |-> findOne(boardCollection, id), status |-> "200"]
    /\ UNCHANGED <<boardCollection, lastSave, process, upserting, histVars,
                   relayVars>>

\* PUT /board/save/:roomId, request r, up to the query of its upsert.  A
\* matched document is updated at once (a single-document update is
\* atomic).  With no match the upsert goes on to insert; the collection has
\* no unique index on roomId (the code creates none), so nothing holds
\* back another upsert of the same roomId in between.
SaveQuery(r, id, name, elements, userEmail, date) ==
    /\ upserting[r] = <<>>
    /\ IF firstMatch(boardCollection, id) # 0
       THEN Save(id, name, elements, userEmail, date)
       ELSE /\ upserting' = [upserting EXCEPT ![r] =
                   <<[roomId |-> id, name |-> name, elements |-> elements,
                      userEmail |-> userEmail, date |-> date]>>]
            /\ UNCHANGED <<boardCollection, last, lastSave, process,
                           relayVars>>

\* PUT /board/save/:roomId, request r: the insert of an upsert that matched
\* no document, and the answer.
SaveInsert(r) ==
    LET q == upserting[r][1]
    IN  /\ upserting[r] # <<>>
        /\ boardCollection' = Append(boardCollection,
               updateDoc(newDoc(q.roomId), q.name, q.elements,
                         q.userEmail, q.date, TRUE))
        /\ last' = [op |-> "save", roomId |-> q.roomId,
                    matchedCount |-> 0, modifiedCount |-> 0,
                    upsertedCount |-> 1, deletedCount |-> 0, body |-> <<>>,
                    status |-> "200"]
        /\ lastSave' = [lastSave EXCEPT ![q.roomId] = <<q.name, q.elements>>]
        /\ upserting' = [upserting EXCEPT ![r] = <<>>]
        /\ UNCHANGED <<process, relayVars>>

\* PUT /board/save/:roomId when boardCollection.updateOne rejects (the
\* store cannot be reached): nothing is written.  The handler has no
\* try/catch.  Express 5 passes the rejection to its default error handler,
\* which answers 500; Express 4 leaves it unhandled, so the request gets no
\* response, and Node then either logs a warning or ends the process.
SaveFails(id, outcome, after) ==
    /\ outcome = "500" => after = "running"
    /\ last' = [op |-> "save", roomId |-> id,
                matchedCount |-> 0, modifiedCount |-> 0,
                upsertedCount |-> 0, deletedCount |-> 0, body |-> <<>>,
                status |-> outcome]
    /\ process' = after
    /\ UNCHANGED <<boardCollection, lastSave, upserting, histVars, relayVars>>

(***************************************************************************)
(* socket.io: rooms and broadcast                                          *)
(***************************************************************************)
\* The sockets in room roomId.
membersOf(roomId) == {c \in Conn : roomId \in rooms[c]}

\* Mutant: a sender that is not in the room reaches no one.
to_fromMember(s, roomId) ==
    IF roomId \in rooms[s] THEN membersOf(roomId) \ {s} ELSE {}

\* Mutant: io.to(roomId), the sender included.
to_all(s, roomId) == membersOf(roomId)

\* socket.to(roomId): every socket in the room except the sender.
to(s, roomId) == membersOf(roomId) \ {s}

\* Mutant: the packet is put in front of the packets already written.
emit_front(box, targets, pkt) ==
    [c \in Conn |-> IF c \in targets THEN <<pkt>> \o box[c] ELSE box[c]]

\* .emit(...) to the targets: the packet is queued on each target's
\* connection, behind the packets already written to it.
emit(box, targets, pkt) ==
    [c \in Conn |-> IF c \in targets THEN Append(box[c], pkt) ELSE box[c]]

\* Mutant: a volatile packet takes the place of what the target has queued.
volatileEmit_replace(box, targets, pkt) ==
    [c \in Conn |-> IF c \in targets THEN <<pkt>> ELSE box[c]]

\* .volatile.emit(...): a target whose transport is not writable (it still
\* has packets to flush) is skipped.
volatileEmit(box, targets, pkt) ==
    [c \in Conn |-> IF c \in targets /\ box[c] = <<>>
                    THEN Append(box[c], pkt) ELSE box[c]]

\* io.on('connection', ...): a client connects.
Connect(c) ==
    /\ status[c] = "new"
    /\ status' = [status EXCEPT ![c] = "open"]
    /\ UNCHANGED <<rooms, outbox, received, relayed, storeVars, histVars>>

\* Mutant: a join of a room the socket is in takes it out of the room.
JoinRoom_toggle(c, roomId) ==
    /\ status[c] = "open"
    /\ rooms' = [rooms EXCEPT ![c] =
                    IF roomId \in @ THEN @ \ {roomId} ELSE @ \cup {roomId}]
    /\ UNCHANGED <<status, outbox, received, relayed, storeVars,
                   invited, owners, savers>>

\* socket.on('join-room', roomId => socket.join(roomId))
JoinRoom(c, roomId) ==
    /\ status[c] = "open"
    /\ rooms' = [rooms EXCEPT ![c] = @ \cup {roomId}]
    /\ UNCHANGED <<status, outbox, received, relayed, storeVars,
                   invited, owners, savers>>

\* Mutant: the handler also writes the elements to the board's record.
DrawingUpdate_persist(s, roomId, elements) ==
    LET id == Len(relayed) + 1
        pkt == [event |-> "receive-drawing", data |-> elements, id |-> id]
    IN  /\ status[s] = "open"
        /\ id <= MaxEvents
        /\ outbox' = emit(outbox, to(s, roomId), pkt)
        /\ relayed' = Append(relayed,
               [event |-> "drawing-update", sender |-> s,
                data |-> elements,
                others |-> {c \in Conn \ {s} : roomId \in rooms[c]}])
        /\ boardCollection' =
               IF firstMatch(boardCollection, roomId) = 0 THEN boardCollection
               ELSE [boardCollection EXCEPT
                        ![firstMatch(boardCollection, roomId)].elements
                            = elements]
        /\ UNCHANGED <<status, rooms, received, last, lastSave, process,
                       upserting, histVars>>

\* socket.on('drawing-update', data => socket.to(data.roomId).emit(...))
DrawingUpdate(s, roomId, elements) ==
    LET id == Len(relayed) + 1
        pkt == [event |-> "receive-drawing", data |-> elements, id |-> id]
    IN  /\ status[s] = "open"
        /\ id <= MaxEvents
        /\ outbox' = emit(outbox, to(s, roomId), pkt)
        /\ relayed' = Append(relayed,
               [event |-> "drawing-update", sender |-> s,
                data |-> elements,
                others |-> {c \in Conn \ {s} : roomId \in rooms[c]}])
        /\ UNCHANGED <<status, rooms, received, storeVars, histVars>>

\* socket.on('mouse-move', data => socket.to(data.roomId).volatile.emit(...))
MouseMove(s, roomId, pointer) ==
    LET id == Len(relayed) + 1
        pkt == [event |-> "receive-mouse",
                data |-> <<pointer, s>>, id |-> id]
    IN  /\ status[s] = "open"
        /\ id <= MaxEvents
        /\ outbox' = volatileEmit(outbox, to(s, roomId), pkt)
        /\ relayed' = Append(relayed,
               [event |-> "mouse-move", sender |-> s,
                data |-> pointer,
                others |-> {c \in Conn \ {s} : roomId \in rooms[c]}])
        /\ UNCHANGED <<status, rooms, received, storeVars, histVars>>

\* Mutant: one send queue for all connections, in handling order: a packet
\* waits for the older packets of every other open connection.
Flush_sharedQueue(c) ==
    /\ status[c] = "open"
    /\ outbox[c] # <<>>
    /\ \A d \in Conn \ {c} :
           status[d] = "open" /\ outbox[d] # <<>> =>
               outbox[d][1].id >= outbox[c][1].id
    /\ received' = [received EXCEPT ![c] = @ \o outbox[c]]
    /\ outbox' = [outbox EXCEPT ![c] = <<>>]
    /\ UNCHANGED <<status, rooms, relayed, storeVars, histVars>>

\* The connection's transport flushes its write buffer to the client.
Flush(c) ==
    /\ status[c] = "open"
    /\ outbox[c] # <<>>
    /\ received' = [received EXCEPT ![c] = @ \o outbox[c]]
    /\ outbox' = [outbox EXCEPT ![c] = <<>>]
    /\ UNCHANGED <<status, rooms, relayed, storeVars, histVars>>

\* Mutant: the closed socket stays in its rooms.
Disconnect_keepRooms(c) ==
    /\ status[c] = "open"
    /\ status' = [status EXCEPT ![c] = "closed"]
    /\ outbox' = [outbox EXCEPT ![c] = <<>>]
    /\ UNCHANGED <<rooms, received, relayed, storeVars, histVars>>

\* The transport closes: the socket leaves its rooms, and what was not yet
\* flushed is discarded.
Disconnect(c) ==
    /\ status[c] = "open"
    /\ status' = [status EXCEPT ![c] = "closed"]
    /\ rooms' = [rooms EXCEPT ![c] = {}]
    /\ outbox' = [outbox EXCEPT ![c] = <<>>]
    /\ UNCHANGED <<received, relayed, storeVars, histVars>>

RelayInit ==
    /\ status = [c \in Conn |-> "new"]
    /\ rooms = [c \in Conn |-> {}]
    /\ outbox = [c \in Conn |-> <<>>]
    /\ received = [c \in Conn |-> <<>>]
    /\ relayed = <<>>
    /\ joins = [c \in Conn |-> <<>>]

StoreInit ==
    /\ boardCollection = <<>>
    /\ last = [op |-> "none", roomId |-> Null,
               matchedCount |-> 0, modifiedCount |-> 0,
               upsertedCount |-> 0, deletedCount |-> 0, body |-> <<>>,
               status |-> "none"]
    /\ process = "running"
    /\ upserting = [r \in Requests |-> <<>>]
    /\ lastSave = [r \in RoomIds |-> <<>>]
    /\ invited = [r \in RoomIds |-> {}]
    /\ owners = [r \in RoomIds |-> {}]
    /\ savers = [r \in RoomIds |-> {}]

vars == <<storeVars, histVars, relayVars>>

Init == StoreInit /\ RelayInit

(***************************************************************************)
(* Specifications                                                          *)
(***************************************************************************)
\* The relay of drawing updates among the sockets.
RelayNext ==
    \/ \E c \in Conn : Connect(c)
    \/ \E c \in Conn, roomId \in RoomIds :
            JoinRoom(c, roomId) /\ UNCHANGED joins
    \/ \E s \in Conn, roomId \in RoomIds, elements \in Drawings :
            DrawingUpdate(s, roomId, elements)
    \/ \E c \in Conn : Flush(c)
    \/ \E c \in Conn : Disconnect(c)

RelaySpec == Init /\ [][RelayNext]_vars

\* The board store under any sequence of requests.
StoreNext ==
    \/ \E id \in RoomIds, name \in Names, elements \in Elements,
          userEmail \in Identity \cup {Undefined}, date \in Dates :
            Save(id, name, elements, userEmail, date) /\ UNCHANGED histVars
    \/ \E roomId \in RoomIds \cup {Undefined}, inviteeEmail \in Identity :
            Invite(roomId, inviteeEmail) /\ UNCHANGED histVars
    \/ \E id \in RoomIds : Delete(id) /\ UNCHANGED histVars
    \/ \E id \in RoomIds : GetBoard(id)

StoreSpec == Init /\ [][StoreNext]_vars

\* The owner of the record of roomId id in coll, as a set.
ownerOf(coll, id) == {findOne(coll, id)[k].owner : k \in 1..Len(findOne(coll, id))}

\* The requests on the tracked roomIds, every field given, with their
\* history recorded.
HistoryNext ==
    \/ \E id \in Tracked, name \in Names, elements \in Elements,
          userEmail \in Identity, date \in Dates :
            /\ Save(id, name, elements, userEmail, date)
            /\ owners' = [owners EXCEPT ![id] =
                             @ \cup ownerOf(boardCollection', id)]
            /\ savers' = [savers EXCEPT ![id] = @ \cup {userEmail}]
            /\ UNCHANGED <<invited, joins>>
    \/ \E roomId \in Tracked, inviteeEmail \in Identity :
            /\ Invite(roomId, inviteeEmail)
            /\ invited' = [invited EXCEPT ![roomId] =
                              @ \cup {<<inviteeEmail, last'.matchedCount>>}]
            /\ UNCHANGED <<owners, savers, joins>>
    \/ \E id \in Tracked :
            /\ Delete(id)
            /\ invited' = [invited EXCEPT ![id] = {}]
            /\ savers' = [savers EXCEPT ![id] = {}]
            /\ UNCHANGED <<owners, joins>>
    \/ \E id \in Tracked : GetBoard(id)

HistorySpec == Init /\ [][HistoryNext]_vars

\* The boards listed for an identity, under any sequence of saves, invites
\* and deletes.
AccessNext ==
    \/ \E id \in RoomIds, elements \in Elements, userEmail \in Identity,
          date \in Dates :
            Save(id, "Untitled", elements, userEmail, date)
                /\ UNCHANGED histVars
    \/ \E roomId \in RoomIds, inviteeEmail \in Identity :
            Invite(roomId, inviteeEmail) /\ UNCHANGED histVars
    \/ \E id \in RoomIds : Delete(id) /\ UNCHANGED histVars
    \/ \E email \in Identity : AllBoards(email)

AccessSpec == Init /\ [][AccessNext]_vars

\* Saves by the identities and invites of them and of a third one on the
\* tracked roomIds, with their history recorded; here a delete restarts
\* the history of the roomId, its owners included.
FrameNext ==
    \/ \E id \in Tracked, name \in Names, elements \in Elements,
          userEmail \in Identity, date \in Dates :
            /\ Save(id, name, elements, userEmail, date)
            /\ owners' = [owners EXCEPT ![id] =
                             @ \cup ownerOf(boardCollection', id)]
            /\ savers' = [savers EXCEPT ![id] = @ \cup {userEmail}]
            /\ UNCHANGED <<invited, joins>>
    \/ \E roomId \in Tracked, inviteeEmail \in Identity \cup Invitees :
            /\ Invite(roomId, inviteeEmail)
            /\ invited' = [invited EXCEPT ![roomId] =
                              @ \cup {<<inviteeEmail, last'.matchedCount>>}]
            /\ UNCHANGED <<owners, savers, joins>>
    \/ \E id \in Tracked :
            /\ Delete(id)
            /\ invited' = [invited EXCEPT ![id] = {}]
            /\ savers' = [savers EXCEPT ![id] = {}]
            /\ owners' = [owners EXCEPT ![id] = {}]
            /\ UNCHANGED joins
    \/ \E id \in Tracked : GetBoard(id)

FrameSpec == Init /\ [][FrameNext]_vars

\* Save requests handled at the same time: the query and the insert of
\* one upsert interleave with those of another.
ConcurrentNext ==
    \/ \E r \in Requests, id \in RoomIds, elements \in Elements,
          userEmail \in Identity, date \in Dates :
            SaveQuery(r, id, "Untitled", elements, userEmail, date)
                /\ UNCHANGED histVars
    \/ \E r \in Requests : SaveInsert(r) /\ UNCHANGED histVars
    \/ \E id \in RoomIds : Delete(id) /\ UNCHANGED histVars
    \/ \E id \in RoomIds : GetBoard(id)

ConcurrentSpec == Init /\ [][ConcurrentNext]_vars

\* Requests and connections while the store may be out of reach: a handler
\* runs only while the process does.
FailureNext ==
    \/ \E id \in Tracked, name \in Names, elements \in Elements,
          userEmail \in Identity, date \in Dates :
            /\ process = "running"
            /\ Save(id, name, elements, userEmail, date)
            /\ UNCHANGED histVars
    \/ \E id \in Tracked, outcome \in {"500", "none"},
          after \in {"running", "exited"} :
            process = "running" /\ SaveFails(id, outcome, after)
    \/ \E id \in Tracked :
            process = "running" /\ Delete(id) /\ UNCHANGED histVars
    \/ \E id \in Tracked : process = "running" /\ GetBoard(id)
    \/ \E c \in Conn : process = "running" /\ Connect(c)
    \/ \E c \in Conn : process = "running" /\ Disconnect(c)

FailureSpec == Init /\ [][FailureNext]_vars

\* The relay between two sockets of one room, the join-room events of
\* each connection recorded.
JoinNext ==
    \/ \E c \in {"A", "B"} : Connect(c)
    \/ \E c \in {"A", "B"}, roomId \in Tracked :
            /\ Len(joins[c]) < MaxJoins
            /\ JoinRoom(c, roomId)
            /\ joins' = [joins EXCEPT ![c] =
                            Append(@, <<roomId, Len(relayed)>>)]
    \/ \E s \in {"A", "B"}, roomId \in Tracked, elements \in Drawings :
            DrawingUpdate(s, roomId, elements)
    \/ \E c \in {"A", "B"} : Flush(c)
    \/ \E c \in {"A", "B"} : Disconnect(c)

JoinSpec == Init /\ [][JoinNext]_vars

\* The board of one room saved and deleted while two sockets relay
\* drawings and pointers in it.
BoardNext ==
    \/ \E id \in Tracked, elements \in Elements, userEmail \in Identity,
          date \in Dates :
            Save(id, "Untitled", elements, userEmail, date)
                /\ UNCHANGED histVars
    \/ \E id \in Tracked : Delete(id) /\ UNCHANGED histVars
    \/ \E c \in {"A", "B"} : Connect(c)
    \/ \E c \in {"A", "B"}, roomId \in Tracked :
            JoinRoom(c, roomId) /\ UNCHANGED joins
    \/ \E s \in {"A", "B"}, roomId \in Tracked, elements \in Drawings :
            DrawingUpdate(s, roomId, elements)
    \/ \E s \in {"A", "B"}, roomId \in Tracked, pointer \in Pointers :
            MouseMove(s, roomId, pointer)
    \/ \E c \in {"A", "B"} : Flush(c)

BoardSpec == Init /\ [][BoardNext]_vars

\* The relay in one room among two clients that drain what is written to
\* them and a third that may never do so: every socket has its own
\* transport and write buffer, and the transport of a responsive client
\* flushes whenever it has something to flush.
Responsive == {"A", "B"}

SlowNext ==
    \/ \E c \in Conn : Connect(c)
    \/ \E c \in Conn, roomId \in Tracked :
            JoinRoom(c, roomId) /\ UNCHANGED joins
    \/ \E s \in Conn, roomId \in Tracked, elements \in Drawings :
            DrawingUpdate(s, roomId, elements)
    \/ \E c \in Conn : Flush(c)
    \/ \E c \in Conn : Disconnect(c)

SlowSpec ==
    /\ Init /\ [][SlowNext]_vars
    /\ \A c \in Responsive : WF_vars(Flush(c))

\* A board saved, invited to and deleted while sockets join its room.  The
\* history recorded here keeps, through a delete, the owners the roomId
\* has had and the invites handled for it; savers restarts with a delete.
ResetNext ==
    \/ \E id \in Tracked, elements \in Elements, userEmail \in Identity,
          date \in Dates :
            /\ Save(id, "Untitled", elements, userEmail, date)
            /\ owners' = [owners EXCEPT ![id] =
                             @ \cup ownerOf(boardCollection', id)]
            /\ savers' = [savers EXCEPT ![id] = @ \cup {userEmail}]
            /\ UNCHANGED <<invited, joins>>
    \/ \E roomId \in Tracked, inviteeEmail \in Invitees :
            /\ Invite(roomId, inviteeEmail)
            /\ invited' = [invited EXCEPT ![roomId] =
                              @ \cup {<<inviteeEmail, last'.matchedCount>>}]
            /\ UNCHANGED <<owners, savers, joins>>
    \/ \E id \in Tracked :
            /\ Delete(id)
            /\ savers' = [savers EXCEPT ![id] = {}]
            /\ UNCHANGED <<invited, owners, joins>>
    \/ \E c \in {"A", "B"} : Connect(c)
    \/ \E c \in {"A", "B"}, roomId \in Tracked :
            JoinRoom(c, roomId) /\ UNCHANGED joins
    \/ \E c \in {"A", "B"} : Disconnect(c)

ResetSpec == Init /\ [][ResetNext]_vars

\* The relay with pointer events, between two sockets.
PointerNext ==
    \/ \E c \in {"A", "B"} : Connect(c)
    \/ \E c \in {"A", "B"}, roomId \in RoomIds :
            JoinRoom(c, roomId) /\ UNCHANGED joins
    \/ \E s \in {"A", "B"}, roomId \in RoomIds, elements \in Drawings :
            DrawingUpdate(s, roomId, elements)
    \/ \E s \in {"A", "B"}, roomId \in RoomIds, pointer \in Pointers :
            MouseMove(s, roomId, pointer)
    \/ \E c \in {"A", "B"} : Flush(c)
    \/ \E c \in {"A", "B"} : Disconnect(c)

PointerSpec == Init /\ [][PointerNext]_vars

(***************************************************************************)
(* Properties of the relay (RelaySpec)                                     *)
(***************************************************************************)
\* What the server has written to connection c, in order: the packets the
\* client has received, then those still to be flushed.
stream(c) == received[c] \o outbox[c]

\* How many times the packet of event i was written to connection c.
copies(c, i) == Cardinality({p \in 1..Len(stream(c)) : stream(c)[p].id = i})

\* The connections event i was due to: the room's members when the server
\* handled it, without the sender.
due(i) == relayed[i].others

\* C1: a step that handles join-room(R) from c ends with c a member of R;
\* a closed connection is a member of no room, has nothing queued, and
\* receives nothing more.
C1_JoinedThenMemberClosedThenNone ==
    [][/\ \A c \in Conn, roomId \in RoomIds :
              JoinRoom(c, roomId) => c \in membersOf(roomId)'
       /\ \A c \in Conn :
              status'[c] = "closed" =>
                  /\ \A roomId \in RoomIds : c \notin membersOf(roomId)'
                  /\ outbox'[c] = <<>>
                  /\ received'[c] = received[c]]_vars

\* C1 witness: a closed connection that had received an event, and a later
\* event that was written to others and not to it.
C1_Witness ==
    \E c \in Conn, j \in 1..Len(relayed) :
        /\ status[c] = "closed"
        /\ received[c] # <<>>
        /\ \A p \in 1..Len(received[c]) : received[c][p].id < j
        /\ due(j) # {}
        /\ copies(c, j) = 0

\* C2 as stated: every drawing-update is written exactly once to every
\* member of its room other than the sender, and to no one else, with the
\* sender's elements.
C2_ExactlyOnceToEveryMember ==
    \A i \in 1..Len(relayed), c \in Conn :
        relayed[i].event = "drawing-update" =>
            /\ copies(c, i) = IF c \in due(i) THEN 1 ELSE 0
            /\ \A p \in 1..Len(stream(c)) :
                   stream(c)[p].id = i =>
                       /\ stream(c)[p].event = "receive-drawing"
                       /\ stream(c)[p].data = relayed[i].data

\* C2 amended: every drawing-update is written exactly once to every member
\* of its room other than the sender whose connection is still open, at
\* most once to one that has closed since (what was not flushed is lost),
\* and never to the sender, to a non-member or to a later joiner; it
\* carries the sender's elements.
C2_OnceToMembersExceptSender ==
    \A i \in 1..Len(relayed), c \in Conn :
        relayed[i].event = "drawing-update" =>
            /\ c \notin due(i) => copies(c, i) = 0
            /\ c \in due(i) /\ status[c] = "open" => copies(c, i) = 1
            /\ c \in due(i) /\ status[c] # "open" =>
                   /\ copies(c, i) <= 1
                   /\ outbox[c] = <<>>
            /\ \A p \in 1..Len(stream(c)) :
                   stream(c)[p].id = i =>
                       /\ stream(c)[p].event = "receive-drawing"
                       /\ stream(c)[p].data = relayed[i].data

\* C2 witness: three connections of one room; the sender was a member
\* when it sent (an earlier event of the room was due to it), a member has
\* received the event, and the third joined the room afterwards.
C2_Witness ==
    \E i \in 1..Len(relayed), c \in Conn, d \in Conn, roomId \in RoomIds :
        /\ relayed[i].event = "drawing-update"
        /\ rooms[relayed[i].sender] = {roomId}
        /\ rooms[c] = {roomId} /\ rooms[d] = {roomId}
        /\ \E j \in 1..(i - 1) : relayed[i].sender \in due(j)
        /\ c \in due(i)
        /\ \E p \in 1..Len(received[c]) : received[c][p].id = i
        /\ d \notin due(i) \cup {relayed[i].sender}
        /\ copies(d, i) = 0

\* C9: on every connection, two receive-drawing packets of the same sender
\* come in the order in which the server handled their drawing-updates.
C9_PerSenderOrder ==
    \A c \in Conn : \A p, q \in 1..Len(stream(c)) :
        /\ p < q
        /\ relayed[stream(c)[p].id].sender = relayed[stream(c)[q].id].sender
        => stream(c)[p].id < stream(c)[q].id

\* C9 witness: a connection has received two events of one sender.
C9_Witness ==
    \E c \in Conn :
        /\ Len(received[c]) = 2
        /\ relayed[received[c][1].id].sender
               = relayed[received[c][2].id].sender

(***************************************************************************)
(* Properties of pointer events (PointerSpec)                              *)
(***************************************************************************)
\* C11: a mouse-move is written at most once to a member of its room other
\* than the sender, as receive-mouse with the sender's pointer and socket
\* id, and never to the sender or to a non-member; and whatever happens to
\* mouse-moves, every drawing-update is written exactly once to each open
\* member it was due to, never twice to anyone, and the receive-drawing
\* packets of a connection are in the order the server handled them.
C11_PointerBestEffort ==
    \A c \in Conn :
        /\ \A i \in 1..Len(relayed) :
               /\ relayed[i].event = "mouse-move" =>
                      /\ copies(c, i) <= 1
                      /\ c \notin due(i) => copies(c, i) = 0
               /\ relayed[i].event = "drawing-update" =>
                      /\ copies(c, i) = IF c \in due(i) /\ status[c] = "open"
                                        THEN 1 ELSE copies(c, i)
                      /\ copies(c, i) <= 1
                      /\ c \notin due(i) => copies(c, i) = 0
        /\ \A p \in 1..Len(stream(c)) :
               /\ relayed[stream(c)[p].id].event = "mouse-move" =>
                      /\ stream(c)[p].event = "receive-mouse"
                      /\ stream(c)[p].data
                             = <<relayed[stream(c)[p].id].data,
                                 relayed[stream(c)[p].id].sender>>
               /\ relayed[stream(c)[p].id].event = "drawing-update" =>
                      /\ stream(c)[p].event = "receive-drawing"
                      /\ stream(c)[p].data = relayed[stream(c)[p].id].data
        /\ \A p, q \in 1..Len(stream(c)) :
               p < q => stream(c)[p].id < stream(c)[q].id

\* C11 witness: a mouse-move was dropped for an open member of its room,
\* which has received the drawing-update handled before it.
C11_Witness ==
    \E i \in 1..Len(relayed), c \in Conn :
        /\ relayed[i].event = "mouse-move"
        /\ c \in due(i) /\ status[c] = "open"
        /\ copies(c, i) = 0
        /\ \E j \in 1..(i - 1), p \in 1..Len(received[c]) :
               /\ relayed[j].event = "drawing-update"
               /\ received[c][p].id = j

(***************************************************************************)
(* Properties of the board store (StoreSpec, HistorySpec)                  *)
(***************************************************************************)
\* Whether roomId id has a record in coll.
hasRecord(coll, id) == findOne(coll, id) # <<>>

\* The record of roomId id in coll, which has one.
record(coll, id) == findOne(coll, id)[1]

\* The values of an array field.
Range(arr) == {arr[k] : k \in 1..Len(arr)}

\* C3: a save of a roomId with no record creates the record with the
\* request's name and elements, owner = userEmail and no collaborators; a
\* save of a roomId that has a record sets name and elements and leaves
\* owner and collaborators as they were.
C3_FirstSaveOwnsLaterSavesKeepOwner ==
    [][\A id \in RoomIds, name \in Names, elements \in Elements,
          userEmail \in Identity \cup {Undefined}, date \in Dates :
            Save(id, name, elements, userEmail, date) =>
                /\ hasRecord(boardCollection', id)
                /\ record(boardCollection', id).name = name
                /\ record(boardCollection', id).elements = elements
                /\ ~hasRecord(boardCollection, id) =>
                       /\ userEmail \in Identity =>
                              record(boardCollection', id).owner = userEmail
                       /\ record(boardCollection', id).collaborators = <<>>
                /\ hasRecord(boardCollection, id) =>
                       /\ record(boardCollection', id).owner
                              = record(boardCollection, id).owner
                       /\ record(boardCollection', id).collaborators
                              = record(boardCollection, id).collaborators]_vars

\* C3 witness: a save by another identity has just been applied to a record
\* that its owner created.
C3_Witness ==
    \E id \in Tracked :
        /\ last.op = "save" /\ last.roomId = id /\ last.matchedCount = 1
        /\ hasRecord(boardCollection, id)
        /\ record(boardCollection, id).owner \in Identity
        /\ \E u \in savers[id] \cap Identity :
               u # record(boardCollection, id).owner

\* C4 as stated: a roomId never has records with two different owners.
C4_OneOwnerPerRoomIdForEver ==
    \A id \in RoomIds : Cardinality(owners[id]) <= 1

\* C4 amended: a record appears only by a save that inserts it, and while
\* the record of a roomId exists no save, invite or lookup changes its
\* owner; the owner of a roomId changes only by a delete followed by a save.
C4_OwnerFixedWhileRecordExists ==
    [][\A id \in RoomIds :
          /\ hasRecord(boardCollection, id) /\ hasRecord(boardCollection', id)
                 => record(boardCollection', id).owner
                        = record(boardCollection, id).owner
          /\ ~hasRecord(boardCollection, id) /\ hasRecord(boardCollection', id)
                 => /\ last'.op = "save" /\ last'.roomId = id
                    /\ last'.upsertedCount = 1]_vars

\* C4 witness: a roomId saved, deleted and saved again under a new owner,
\* then invited to and saved by someone else, the owner staying.
C4_Witness ==
    \E id \in Tracked :
        /\ Cardinality(owners[id]) = 2
        /\ hasRecord(boardCollection, id)
        /\ record(boardCollection, id).collaborators # <<>>
        /\ savers[id] \ {record(boardCollection, id).owner} # {}

\* C5 as stated: whenever a roomId has a record, every identity invited to
\* it since its last delete is a collaborator, and name and elements are
\* those of the last save.
C5_InviteSurvivesAnyOrder ==
    \A id \in RoomIds :
        hasRecord(boardCollection, id) =>
            /\ \A inv \in invited[id] :
                   inv[1] \in Range(record(boardCollection, id).collaborators)
            /\ lastSave[id] = <<record(boardCollection, id).name,
                                record(boardCollection, id).elements>>

\* C5 amended: an invite handled while the roomId has a record (it matched)
\* keeps its invitee among the collaborators through every later save, and
\* name and elements are those of the last save; an invite handled before
\* the first save matches nothing and adds no one.
C5_InviteOnRecordSurvivesSaves ==
    \A id \in RoomIds :
        /\ hasRecord(boardCollection, id) =>
            /\ \A inv \in invited[id] :
                   inv[2] = 1 =>
                     inv[1] \in Range(record(boardCollection, id).collaborators)
            /\ \A x \in Range(record(boardCollection, id).collaborators) :
                   <<x, 1>> \in invited[id]
            /\ lastSave[id] = <<record(boardCollection, id).name,
                                record(boardCollection, id).elements>>
        /\ \A inv \in invited[id] :
               inv[2] = 0 /\ <<inv[1], 1>> \notin invited[id] =>
                   \/ ~hasRecord(boardCollection, id)
                   \/ inv[1] \notin
                          Range(record(boardCollection, id).collaborators)

\* C5 witness: a save has just been applied to a record that has a
\* collaborator invited before that save.
C5_Witness ==
    \E id \in Tracked, x \in Identity :
        /\ last.op = "save" /\ last.roomId = id
        /\ last.matchedCount = 1 /\ last.modifiedCount = 1
        /\ <<x, 1>> \in invited[id]
        /\ x \in Range(record(boardCollection, id).collaborators)

\* C6: an invite of an identity that is already a collaborator of the
\* record changes nothing in the store, and no collaborators array ever
\* holds the same identity twice.
C6_InviteIdempotent ==
    [][/\ \A roomId \in RoomIds, inviteeEmail \in Identity :
              /\ Invite(roomId, inviteeEmail)
              /\ hasRecord(boardCollection, roomId)
              /\ inviteeEmail \in
                     Range(record(boardCollection, roomId).collaborators)
              => boardCollection' = boardCollection
       /\ \A i \in 1..Len(boardCollection') :
              \A p, q \in 1..Len(boardCollection'[i].collaborators) :
                  p # q => boardCollection'[i].collaborators[p]
                               # boardCollection'[i].collaborators[q]]_vars

\* C6 witness: a repeated invite has matched a record and modified nothing,
\* the record having two collaborators.
C6_Witness ==
    /\ last.op = "invite" /\ last.matchedCount = 1 /\ last.modifiedCount = 0
    /\ Len(record(boardCollection, last.roomId).collaborators) = 2

\* C7: a delete of a roomId with no record reports deletedCount 0 and
\* leaves the collection as it was; a delete of a roomId with a record
\* reports deletedCount 1, leaves no record of that roomId and leaves the
\* record of every other roomId as it was.
C7_DeleteIdempotent ==
    [][\A id \in RoomIds :
          Delete(id) =>
              /\ ~hasRecord(boardCollection, id) =>
                     /\ last'.deletedCount = 0
                     /\ boardCollection' = boardCollection
              /\ hasRecord(boardCollection, id) =>
                     /\ last'.deletedCount = 1
                     /\ ~hasRecord(boardCollection', id)
                     /\ Len(boardCollection') = Len(boardCollection) - 1
              /\ \A other \in RoomIds \ {id} :
                     findOne(boardCollection', other)
                         = findOne(boardCollection, other)]_vars

\* C7 witness: a delete of a roomId with no record has reported 0, the
\* record of another roomId being there.
C7_Witness ==
    /\ last.op = "delete" /\ last.deletedCount = 0
    /\ boardCollection # <<>>

\* C8: a roomId has a record with its owner set exactly when it was saved
\* since its last delete, no record is without an owner, and a lookup
\* answers an absent record with an empty body and an existing one with
\* the record.
C8_OwnerSetIffSaved ==
    /\ \A id \in RoomIds :
           /\ lastSave[id] # <<>> <=>
                  /\ hasRecord(boardCollection, id)
                  /\ record(boardCollection, id).owner # Null
           /\ hasRecord(boardCollection, id) =>
                  record(boardCollection, id).owner # Null
    /\ last.op = "get" =>
           last.body = findOne(boardCollection, last.roomId)

C12_MalformedRejected ==
    [][/\ \A id \in RoomIds, name \in Names, elements \in Elements,
             date \in Dates :
              Save(id, name, elements, Undefined, date) =>
                  /\ boardCollection' = boardCollection
                  /\ last'.status # "200"
       /\ \A inviteeEmail \in Identity :
              Invite(Undefined, inviteeEmail) =>
                  /\ boardCollection' = boardCollection
                  /\ last'.status # "200"]_vars

\* C13: when the storage call of a save fails, the caller is answered with
\* an error, the collection is as it was, and the process keeps running.
C13_FailedSaveReported ==
    [][\A id \in RoomIds, outcome \in {"500", "none"},
          after \in {"running", "exited"} :
            SaveFails(id, outcome, after) =>
                /\ last'.status = "500"
                /\ boardCollection' = boardCollection
                /\ process' = "running"]_vars

(***************************************************************************)
(* The list of boards (AccessSpec)                                         *)
(***************************************************************************)
\* The access predicate: identity is the owner or one of the collaborators.
canRead(identity, board) ==
    \/ identity = board.owner
    \/ identity \in Range(board.collaborators)

C15_OneRecordPerRoomId ==
    \A id \in RoomIds :
        /\ Cardinality(Matches(boardCollection, id)) <= 1
        /\ /\ lastSave[id] # <<>>
           /\ \A r \in Requests :
                  upserting[r] = <<>> \/ upserting[r][1].roomId # id
           => /\ Cardinality(Matches(boardCollection, id)) = 1
              /\ record(boardCollection, id).owner \in Identity
              /\ record(boardCollection, id).collaborators = <<>>

(***************************************************************************)
(* Fields written by save and by invite (FrameSpec)                        *)
(***************************************************************************)
\* C16: a save of a roomId that has a record leaves its owner and its
\* collaborators as they were; an invite leaves name, elements,
\* lastModified and owner as they were and keeps every collaborator; a new
\* record has no collaborators, and while a record exists its
\* collaborators only grow, and only by an invite.  So a record owned by a
\* since its creation, saved last with [shape1] and invited to with c
\* only, has owner a, elements [shape1] and collaborators {c}.
C16_SaveAndInviteDisjoint ==
    [][\A id \in RoomIds :
          /\ hasRecord(boardCollection, id) /\ hasRecord(boardCollection', id)
             => /\ last'.op = "save" =>
                       /\ record(boardCollection', id).owner
                              = record(boardCollection, id).owner
                       /\ record(boardCollection', id).collaborators
                              = record(boardCollection, id).collaborators
                /\ last'.op = "invite" =>
                       /\ record(boardCollection', id).name
                              = record(boardCollection, id).name
                       /\ record(boardCollection', id).elements
                              = record(boardCollection, id).elements
                       /\ record(boardCollection', id).lastModified
                              = record(boardCollection, id).lastModified
                       /\ record(boardCollection', id).owner
                              = record(boardCollection, id).owner
                /\ Range(record(boardCollection, id).collaborators)
                       \subseteq Range(record(boardCollection', id).collaborators)
                /\ record(boardCollection', id).collaborators
                       # record(boardCollection, id).collaborators
                   => last'.op = "invite" /\ last'.roomId = id
          /\ ~hasRecord(boardCollection, id) /\ hasRecord(boardCollection', id)
             => record(boardCollection', id).collaborators = <<>>
          /\ /\ hasRecord(boardCollection', id)
             /\ owners'[id] = {"a@x.com"}
             /\ lastSave'[id] = <<"Untitled", "[shape1]">>
             /\ invited'[id] = {<<"c@x.com", 1>>}
             => /\ record(boardCollection', id).owner = "a@x.com"
                /\ record(boardCollection', id).elements = "[shape1]"
                /\ record(boardCollection', id).collaborators = <<"c@x.com">>
      ]_vars

\* C16 witness: save("r1", "Untitled", [], a), save("r1", "Untitled",
\* [shape1], b), invite("r1", c) have been handled, the invite last.
C16_Witness ==
    /\ last.op = "invite" /\ last.roomId = "r1" /\ last.modifiedCount = 1
    /\ owners["r1"] = {"a@x.com"}
    /\ savers["r1"] = {"a@x.com", "b@x.com"}
    /\ lastSave["r1"] = <<"Untitled", "[shape1]">>
    /\ invited["r1"] = {<<"c@x.com", 1>>}
    /\ record(boardCollection, "r1").owner = "a@x.com"
    /\ record(boardCollection, "r1").elements = "[shape1]"
    /\ record(boardCollection, "r1").collaborators = <<"c@x.com">>

(***************************************************************************)
(* Rooms of a connection (RelaySpec)                                       *)
(***************************************************************************)
\* C17: a connection is a member of at most one room; a step that handles
\* join-room(R) from it ends with R as its only room.
C17_AtMostOneRoom ==
    [][/\ \A c \in Conn : Cardinality(rooms'[c]) <= 1
       /\ \A c \in Conn, roomId \in RoomIds :
              JoinRoom(c, roomId) => rooms'[c] = {roomId}]_vars

(***************************************************************************)
(* Repeated joins (JoinSpec)                                               *)
(***************************************************************************)
\* C18: a join-room(R) from a connection that is in R leaves the rooms of
\* every connection, and what is written to them, as they were; and a
\* drawing-update handled after a connection has joined R any number of
\* times is written to it once if it is open, never twice.
C18_JoinIdempotent ==
    [][/\ \A c \in Conn, roomId \in RoomIds :
              JoinRoom(c, roomId) /\ roomId \in rooms[c] =>
                  /\ rooms' = rooms
                  /\ outbox' = outbox /\ received' = received
       /\ \A c \in Conn, i \in 1..Len(relayed') :
              /\ Cardinality({p \in 1..Len(received'[c] \o outbox'[c]) :
                      (received'[c] \o outbox'[c])[p].id = i}) <= 1
              /\ /\ status'[c] = "open"
                 /\ \E k \in 1..Len(joins'[c]) : joins'[c][k][2] < i
                 /\ c # relayed'[i].sender
                 => Cardinality({p \in 1..Len(received'[c] \o outbox'[c]) :
                        (received'[c] \o outbox'[c])[p].id = i}) = 1]_vars

\* C18 witness: a connection that has joined the same room twice has
\* received, once, a drawing-update handled after both joins.
C18_Witness ==
    \E c \in Conn, i \in 1..Len(relayed) :
        /\ Len(joins[c]) >= 2
        /\ joins[c][1][1] = joins[c][2][1]
        /\ joins[c][2][2] < i
        /\ copies(c, i) = 1
        /\ \E p \in 1..Len(received[c]) : received[c][p].id = i

(***************************************************************************)
(* The relay and the store (BoardSpec)                                     *)
(***************************************************************************)
\* C19: a step that handles a drawing-update or a mouse-move leaves the
\* collection as it was; and a step that changes the collection is a save
\* or a delete answered in that step, which leaves the sockets as they
\* were.
C19_RelayDoesNotPersist ==
    [][/\ \A s \in Conn, roomId \in RoomIds :
              \/ \E elements \in Drawings : DrawingUpdate(s, roomId, elements)
              \/ \E pointer \in Pointers : MouseMove(s, roomId, pointer)
              => boardCollection' = boardCollection
       /\ boardCollection' # boardCollection =>
              /\ last'.op \in {"save", "delete"}
              /\ relayed' = relayed /\ outbox' = outbox
       /\ \A id \in RoomIds :
              /\ hasRecord(boardCollection, id)
              /\ hasRecord(boardCollection', id)
              /\ record(boardCollection', id).elements
                     # record(boardCollection, id).elements
              => /\ last'.op = "save" /\ last'.roomId = id
                 /\ lastSave'[id][2] = record(boardCollection', id).elements
      ]_vars

\* C19 witness: a member of room r1 has received the drawing [shape1]
\* relayed in it, and the record saved for r1 before still has elements [].
C19_Witness ==
    \E c \in Conn, i \in 1..Len(relayed) :
        /\ relayed[i].event = "drawing-update"
        /\ relayed[i].data = "[shape1]"
        /\ rooms[c] = {"r1"} /\ rooms[relayed[i].sender] = {"r1"}
        /\ \E p \in 1..Len(received[c]) : received[c][p].id = i
        /\ hasRecord(boardCollection, "r1")
        /\ record(boardCollection, "r1").elements = "[]"

(***************************************************************************)
(* A recipient that does not drain (SlowSpec)                              *)
(***************************************************************************)
\* Whether the packet of event i is among the packets in box.
holds(box, i) == \E p \in 1..Len(box) : box[p].id = i

\* C20: a drawing-update written to a responsive member of its room is
\* eventually received by it, unless its connection closes, whether or not
\* the other members ever drain what is written to them.
C20_SlowRecipientDoesNotStall ==
    \A c \in Responsive : \A i \in 1..MaxEvents :
        holds(outbox[c], i) ~> (holds(received[c], i) \/ status[c] = "closed")

\* C20 witness: a responsive member has received a drawing-update that is
\* still waiting in the write buffer of the member that does not drain,
\* behind an older one.
C20_Witness ==
    \E c \in Responsive, d \in Conn \ Responsive, i \in 1..Len(relayed) :
        /\ holds(received[c], i)
        /\ status[d] = "open"
        /\ Len(outbox[d]) = 2
        /\ outbox[d][2].id = i

(***************************************************************************)
(* No access check in the relay (BoardSpec)                                *)
(***************************************************************************)
\* C21: an open connection can join any room, whatever the collection
\* holds; and a drawing-update or a mouse-move naming room R is written to
\* every member of R other than the sender (a mouse-move to those whose
\* transport is writable), whether or not the sender is in R and whether
\* or not R has a record.
C21_NoAccessCheck ==
    [][/\ \A c \in Conn, roomId \in RoomIds :
              status[c] = "open" =>
                  ENABLED (JoinRoom(c, roomId) /\ UNCHANGED joins)
       /\ \A c \in Conn, roomId \in RoomIds :
              JoinRoom(c, roomId) => roomId \in rooms'[c]
       /\ \A s \in Conn, roomId \in RoomIds, elements \in Drawings :
              DrawingUpdate(s, roomId, elements) =>
                  \A c \in membersOf(roomId) \ {s} :
                      /\ Len(outbox'[c]) = Len(outbox[c]) + 1
                      /\ outbox'[c][Len(outbox'[c])].event = "receive-drawing"
                      /\ outbox'[c][Len(outbox'[c])].data = elements
       /\ \A s \in Conn, roomId \in RoomIds, pointer \in Pointers :
              MouseMove(s, roomId, pointer) =>
                  \A c \in membersOf(roomId) \ {s} :
                      outbox[c] = <<>> =>
                          /\ Len(outbox'[c]) = 1
                          /\ outbox'[c][1].event = "receive-mouse"
                          /\ outbox'[c][1].data = <<pointer, s>>]_vars

\* C21 witness: no board was ever saved, an open connection that joined no
\* room has sent a drawing-update, and a connection that joined room r1
\* has received it.
C21_Witness ==
    \E s \in Conn, c \in Conn, i \in 1..Len(relayed) :
        /\ last.op = "none" /\ boardCollection = <<>>
        /\ relayed[i].event = "drawing-update"
        /\ relayed[i].sender = s
        /\ status[s] = "open" /\ rooms[s] = {}
        /\ rooms[c] = {"r1"}
        /\ holds(received[c], i)

(***************************************************************************)
(* A board deleted and saved again (ResetSpec)                             *)
(***************************************************************************)
\* C22: a delete of a roomId leaves no record of it and leaves every
\* socket, its rooms and what is written to it as they were; and the save
\* that follows creates a record whose owner is the userEmail of that save
\* and whose collaborators are empty, whoever owned the roomId before and
\* whoever was invited to it.
C22_DeleteResetsOwnership ==
    [][\A id \in RoomIds :
          /\ Delete(id) =>
                 /\ ~hasRecord(boardCollection', id)
                 /\ rooms' = rooms /\ status' = status
                 /\ outbox' = outbox /\ received' = received
          /\ \A name \in Names, elements \in Elements,
                userEmail \in Identity, date \in Dates :
                 /\ Save(id, name, elements, userEmail, date)
                 /\ ~hasRecord(boardCollection, id)
                 => /\ record(boardCollection', id).owner = userEmail
                    /\ record(boardCollection', id).collaborators = <<>>
          /\ last'.op = "save" /\ last'.roomId = id
                 /\ last'.upsertedCount = 1
                 => /\ savers'[id] = {record(boardCollection', id).owner}
                    /\ record(boardCollection', id).collaborators = <<>>
      ]_vars

\* C22 witness: r1, once owned by another identity and with an invite
\* that matched its record, was deleted and has just been saved anew: its
\* record has the new owner and no collaborators, and an open connection
\* is in room r1.
C22_Witness ==
    /\ last.op = "save" /\ last.roomId = "r1" /\ last.upsertedCount = 1
    /\ Cardinality(owners["r1"]) = 2
    /\ \E x \in Invitees : <<x, 1>> \in invited["r1"]
    /\ record(boardCollection, "r1").collaborators = <<>>
    /\ savers["r1"] = {record(boardCollection, "r1").owner}
    /\ \E c \in Conn : status[c] = "open" /\ rooms[c] = {"r1"}

====
